---- MODULE Spec2Model ----
(***************************************************************************)
(* Model of the regulatory-context server: the text normaliser             *)
(* (server/utils.py), the RegulationStore (server/regulation_store.py),   *)
(* the RegionStore (server/region_store.py) and the query facade          *)
(* (server/main.py).                                                       *)
(*                                                                         *)
(* Strings are sequences of one-character strings, so that strip, lower,  *)
(* substring search and slicing are computed, not assumed.  A JSON object *)
(* is a TLA+ record that has exactly the keys the object has.             *)
(***************************************************************************)
EXTENDS Integers, Sequences, FiniteSets, TLC

(***************************************************************************)
(* Bounds                                                                  *)
(***************************************************************************)
\* longest identifier / keyword string a caller passes
MaxLen == 2

\* characters that occur in the data files
Char == {"a", "A", "b", " "}
\* characters callers use in identifiers and keywords
QueryChar == {"a", "A", " "}

StringsUpTo(S, n) == UNION {[1..k -> S] : k \in 0..n}
\* the identifier and keyword strings callers pass
Queries == StringsUpTo(QueryChar, MaxLen)

None == [t |-> "None"]

Min(S) == CHOOSE x \in S : \A y \in S : x <= y
Max(S) == CHOOSE x \in S : \A y \in S : x >= y

(***************************************************************************)
(* server/utils.py                                                         *)
(***************************************************************************)
\* str.lower on one character
lower_char(c) == IF c = "A" THEN "a" ELSE c

\* str.lower
lower(s) == [i \in 1..Len(s) |-> lower_char(s[i])]

\* str.strip: drop leading and trailing whitespace
strip(s) ==
    LET ink == {i \in 1..Len(s) : s[i] # " "}
    IN  IF ink = {} THEN <<>> ELSE SubSeq(s, Min(ink), Max(ink))

\* mutant: lower-cases without trimming
normalize_string_nostrip(s) == lower(s)

\* normalize_string(s) = s.strip().lower()
normalize_string(s) == lower(strip(s))

(***************************************************************************)
(* Python string primitives used by the stores                             *)
(***************************************************************************)
\* the offsets (0-based) at which k occurs in t
Occurrences(k, t) ==
    {i \in 0..(Len(t) - Len(k)) : SubSeq(t, i + 1, i + Len(k)) = k}

\* mutant: the empty string is contained in no text
contains_nonempty(k, t) == k # <<>> /\ Occurrences(k, t) # {}

\* k in t
contains(k, t) == Occurrences(k, t) # {}

\* t.find(k)
find(k, t) == IF Occurrences(k, t) = {} THEN -1 ELSE Min(Occurrences(k, t))

\* t[a:b] for 0 <= a, b
slice(t, a, b) == SubSeq(t, a + 1, IF b > Len(t) THEN Len(t) ELSE b)

\* name.endswith(suffix)
endswith(name, suffix) ==
    /\ Len(name) >= Len(suffix)
    /\ SubSeq(name, Len(name) - Len(suffix) + 1, Len(name)) = suffix

\* dict.get(key, default)
Get(d, key, default) == IF key \in DOMAIN d THEN d[key] ELSE default

DotJson == <<".", "j", "s", "o", "n">>
RegionsJson == <<"r", "e", "g", "i", "o", "n", "s">> \o DotJson

(***************************************************************************)
(* Insertion-ordered dict: a sequence of <<key, value>> pairs              *)
(***************************************************************************)
DictKeys(d) == {d[i][1] : i \in 1..Len(d)}

DictIndex(d, k) == CHOOSE i \in 1..Len(d) : d[i][1] = k

\* d.get(k): the value or None
DictGet(d, k) == IF k \in DictKeys(d) THEN d[DictIndex(d, k)][2] ELSE None

\* d[k] = v: an existing key keeps its position, a new key goes last
DictPut(d, k, v) ==
    IF k \in DictKeys(d)
    THEN [d EXCEPT ![DictIndex(d, k)] = <<k, v>>]
    ELSE Append(d, <<k, v>>)

(***************************************************************************)
(* JSON documents on disk                                                  *)
(***************************************************************************)
\* a file whose content parses to a JSON object
DictDoc(r) == [t |-> "dict", v |-> r]
\* a file whose content parses to a JSON list (of strings, or of objects)
ListDoc(of, l) == [t |-> "list", of |-> of, v |-> l]
\* a file whose content parses to a JSON number
NumDoc == [t |-> "num"]
\* a file whose content is not valid JSON
InvalidDoc == [t |-> "invalid"]
\* a file that exists and cannot be opened
UnreadableDoc == [t |-> "unreadable"]
\* no file
Absent == [t |-> "absent"]

\* id "a"; matches in every kind of field
RegA ==
    [id |-> <<"a">>,
     name |-> <<"A", " ", "b">>,
     summary |-> <<"b", " ", "a">>,
     articles |-> <<[article |-> <<"1">>,
                     title |-> <<"a", "b">>,
                     summary |-> <<"a", " ", "a">>]>>,
     developer_guidance |-> << <<"a">>, <<"b">> >>]

\* id "A ": the same normalized id as RegA, written differently
RegDup ==
    [id |-> <<"A", " ">>,
     name |-> <<"b">>,
     summary |-> <<" ", "b", "a", "A">>,
     articles |-> <<>>,
     developer_guidance |-> << <<"a">> >>]

\* id " ": normalizes to the empty string; matches only in guidance
RegE ==
    [id |-> <<" ">>,
     name |-> <<"b">>,
     summary |-> <<"b", "b">>,
     articles |-> <<[article |-> <<"7">>, title |-> <<"b">>, summary |-> <<"b">>]>>,
     developer_guidance |-> << <<"b">>, <<"A">>, <<"a", " ", "A">> >>]

\* id "aa"; no name, no summary; an article without a number
RegAA ==
    [id |-> <<"a", "a">>,
     articles |-> <<[title |-> <<"b">>, summary |-> <<"b", "A", "a">>],
                    [article |-> <<"2">>, title |-> <<"a", " ", "a">>,
                     summary |-> <<"a">>]>>,
     developer_guidance |-> << <<"A", "a">> >>]

\* id "Aa": stored under "aa" like RegAA; matches only in guidance
RegAa ==
    [id |-> <<"A", "a">>,
     name |-> <<"b", "b">>,
     summary |-> <<"b">>,
     developer_guidance |-> << <<"b">>, <<"a">> >>]

\* an object without an id
RegNoId ==
    [name |-> <<"a">>, summary |-> <<"a", "a">>]

\* the default of _extract_snippet's context_chars
context_chars == 100

\* n times the character c
Repeat(c, n) == [i \in 1..n |-> c]

\* the regulation of the second data directory: id "a" with another name; its
\* summary starts with more whitespace than the context window is wide, and
\* its guidance string is longer than the window on both sides of its match
RegS ==
    [id |-> <<"a">>,
     name |-> <<"b", "a">>,
     summary |-> Repeat(" ", context_chars + 1) \o <<"a", "A">>,
     articles |-> <<>>,
     developer_guidance |->
        << Repeat("b", context_chars + 1) \o <<"A", "a">>
           \o Repeat("b", context_chars + 1) >>]

\* a file that is no .json file, though its content is a regulation
RegTxt ==
    [id |-> <<"a", "a">>, name |-> <<"a", "a">>]

\* region " A" (normalized "a") referencing "a", "aa" and "b"
RegionA ==
    [id |-> <<" ", "A">>,
     name |-> <<"b">>,
     regulations |-> << <<"a">>, <<"a", "a">>, <<"b">> >>,
     notes |-> <<"b">>]

\* region "aa", without a reference list
RegionAA ==
    [id |-> <<"a", "a">>, name |-> <<"a">>]

\* region "A" (normalized "a" like RegionA), referencing "aa"
RegionDup ==
    [id |-> <<"A">>, name |-> <<"a", "b">>, regulations |-> << <<"a", "a">> >>]

\* region " " (normalized ""), referencing "Aa" and "x": its fallback files
\* are looked for in the data directory itself
RegionE ==
    [id |-> <<" ">>,
     name |-> <<"b", "b">>,
     regulations |-> << <<"A", "a">>, <<"x">> >>]

\* a region without an id
RegionNoId ==
    [name |-> <<"b">>, regulations |-> << <<"a">> >>]

(***************************************************************************)
(* The file system: the data directories that exist and their files        *)
(***************************************************************************)
DataDirs == {"d1", "d2"}

\* the data directory of the facade (REGULATION_DATA_DIR)
DATA_DIR == "d1"

\* <root>/<dir components>/<name>
Path(root, dir, name) == [root |-> root, dir |-> dir, name |-> name]

FileOf(pairs) ==
    LET present == {pd \in pairs : pd[2] # Absent}
    IN  [p \in {pd[1] : pd \in present} |->
            (CHOOSE pd \in present : pd[1] = p)[2]]

\* d1 holds x.json, y.json, z.txt, the manifest and the subdirectory a/;
\* d2 holds s.json and no manifest
MakeFS(y, sub, manifest) ==
    [roots |-> {"d1", "d2"},
     files |-> FileOf({
        <<Path("d1", <<>>, <<"x">> \o DotJson), DictDoc(RegA)>>,
        <<Path("d1", <<>>, <<"y">> \o DotJson), y>>,
        <<Path("d1", <<>>, <<"z", ".", "t", "x", "t">>), DictDoc(RegTxt)>>,
        <<Path("d1", <<>>, RegionsJson), manifest>>,
        <<Path("d1", << <<"a">> >>, <<"a", "a">> \o DotJson), sub>>,
        <<Path("d2", <<>>, <<"s">> \o DotJson), DictDoc(RegS)>>})]

\* d1 does not exist
NoRootFS ==
    [roots |-> {"d2"},
     files |-> FileOf({<<Path("d2", <<>>, <<"s">> \o DotJson), DictDoc(RegS)>>})]

\* a manifest of four regions, two of them with the same normalized id
ManifestList == ListDoc("dict", <<RegionDup, RegionNoId, RegionA, RegionE>>)

\* a manifest of one region
ManifestSmall == ListDoc("dict", <<RegionAA>>)

\* the four regions in an object with a `regions` list
ManifestWrapped == DictDoc([regions |-> <<RegionDup, RegionNoId, RegionA, RegionE>>])

\* the one region as a bare object
ManifestBare == DictDoc(RegionAA)

YOptions ==
    {Absent, DictDoc(RegDup), DictDoc(RegE), DictDoc(RegAa), DictDoc(RegNoId),
     InvalidDoc, NumDoc, ListDoc("str", << <<"i", "d">> >>), ListDoc("str", << <<"a">> >>)}

SubOptions ==
    {Absent, DictDoc(RegAA), DictDoc(RegAa), DictDoc(RegNoId), InvalidDoc,
     UnreadableDoc}

ManifestOptions ==
    {Absent, InvalidDoc, NumDoc, ManifestList, ManifestSmall, ManifestWrapped,
     ManifestBare}

FileSystems ==
    {MakeFS(y, sub, ManifestList) : y \in YOptions, sub \in SubOptions}
    \cup {MakeFS(Absent, DictDoc(RegAA), m) : m \in ManifestOptions}
    \cup {NoRootFS}

\* Path.exists
exists(disk, p) == p \in DOMAIN disk.files

\* the names of the files directly in directory dir of root
FilesIn(disk, root, dir) ==
    {p.name : p \in {q \in DOMAIN disk.files : q.root = root /\ q.dir = dir}}

\* the subdirectories directly in directory dir of root
DirsIn(disk, root, dir) ==
    {SubSeq(p.dir, 1, Len(dir) + 1) :
        p \in {q \in DOMAIN disk.files :
                 /\ q.root = root
                 /\ Len(q.dir) > Len(dir)
                 /\ SubSeq(q.dir, 1, Len(dir)) = dir}}

\* every order in which a directory listing can come
Orders(S) ==
    {s \in [1..Cardinality(S) -> S] : \A i, j \in 1..Cardinality(S) : s[i] = s[j] => i = j}

\* load_json_file(path): the exception raised, or the parsed data
load_json_file(disk, p) ==
    IF ~exists(disk, p) THEN [exc |-> "FileNotFoundError"]
    ELSE IF disk.files[p].t = "unreadable" THEN [exc |-> "PermissionError"]
    ELSE IF disk.files[p].t = "invalid" THEN [exc |-> "JSONDecodeError"]
    ELSE [exc |-> "none", data |-> disk.files[p]]

(***************************************************************************)
(* State                                                                   *)
(***************************************************************************)
VARIABLES
    disk,          \* the file system
    mode,          \* "facade": the server process; "library": a direct client
    stores,        \* data directory -> the RegulationStore built over it
    walk,          \* the running RegulationStore constructor, or None
    region_store,  \* the RegionStore
    ctx,           \* the AppContext the facade yielded, or None
    last           \* the last call and what it returned, or None

vars == <<disk, mode, stores, walk, region_store, ctx, last>>

NoStore == [status |-> "none", exc |-> "none", regulations |-> <<>>, loaded |-> <<>>]

NoRegionStore ==
    [status |-> "none", exc |-> "none", data_dir |-> "none",
     regulation_store |-> "None", regions |-> <<>>]

Init ==
    /\ disk \in FileSystems
    /\ mode \in {"facade", "library"}
    /\ stores = [d \in DataDirs |-> NoStore]
    /\ walk = None
    /\ region_store = NoRegionStore
    /\ ctx = None
    /\ last = None

(***************************************************************************)
(* RegulationStore construction  (regulation_store.py 14-47)               *)
(***************************************************************************)
\* mutant: the extension is not looked at
is_regulation_file_any_file(name) == name # RegionsJson

\* line 37: file.endswith(".json") and file != "regions.json"
is_regulation_file(name) == endswith(name, DotJson) /\ name # RegionsJson

\* mutant: a record whose key is taken already is not stored
store_record_keep_first(regs, data) ==
    IF normalize_string(data["id"]) \in DictKeys(regs)
    THEN regs
    ELSE DictPut(regs, normalize_string(data["id"]), data)

\* lines 42-43: self.regulations[normalize_string(data["id"])] = data
store_record(regs, data) == DictPut(regs, normalize_string(data["id"]), data)

\* lines 39-47, the body of the loop for one regulation file: the exception
\* that leaves the constructor, or the map after the file
load_regulation_file(fsys, regs, p) ==
    LET r == load_json_file(fsys, p)
    IN  IF r.exc = "JSONDecodeError" THEN [exc |-> "none", regulations |-> regs]
        ELSE IF r.exc # "none" THEN [exc |-> r.exc]
        ELSE IF r.data.t = "dict"
             THEN IF "id" \in DOMAIN r.data.v
                  THEN [exc |-> "none", regulations |-> store_record(regs, r.data.v)]
                  ELSE [exc |-> "none", regulations |-> regs]
        ELSE IF r.data.t = "list"
             THEN IF r.data.of = "str"
                     /\ \E i \in 1..Len(r.data.v) : r.data.v[i] = <<"i", "d">>
                  THEN [exc |-> "TypeError"]
                  ELSE [exc |-> "none", regulations |-> regs]
        ELSE [exc |-> "TypeError"]

\* RegulationStore(d), lines 21-34: fails when the directory does not exist,
\* else starts the walk at the top of the tree
RegulationStoreInit(d) ==
    /\ walk = None
    /\ stores[d].status = "none"
    /\ mode = "facade" => d = DATA_DIR /\ ctx = None
    /\ IF d \notin disk.roots
       THEN /\ stores' = [stores EXCEPT ![d] =
                    [status |-> "failed", exc |-> "FileNotFoundError",
                     regulations |-> <<>>, loaded |-> <<>>]]
            /\ walk' = None
       ELSE /\ \E order \in Orders(DirsIn(disk, d, <<>>)) :
                    walk' = [data_dir |-> d, regulations |-> <<>>, loaded |-> <<>>,
                             cur |-> <<>>,
                             todo |-> FilesIn(disk, d, <<>>), stack |-> order]
            /\ stores' = stores
    /\ last' = None
    /\ UNCHANGED <<disk, mode, region_store, ctx>>

\* lines 41-43: the file at p parses to an object with an id, so that its
\* record is stored
is_stored(fsys, p) ==
    LET r == load_json_file(fsys, p)
    IN  r.exc = "none" /\ r.data.t = "dict" /\ "id" \in DOMAIN r.data.v

\* one iteration of the loop over the files of the current directory; loaded
\* keeps the files whose record was stored, in the order of storing
LoadFile ==
    /\ walk # None
    /\ \E name \in walk.todo :
          LET p == Path(walk.data_dir, walk.cur, name)
              r == IF is_regulation_file(name)
                   THEN load_regulation_file(disk, walk.regulations, p)
                   ELSE [exc |-> "none", regulations |-> walk.regulations]
          IN  IF r.exc # "none"
              THEN /\ stores' = [stores EXCEPT ![walk.data_dir] =
                          [status |-> "failed", exc |-> r.exc, regulations |-> <<>>,
                           loaded |-> <<>>]]
                   /\ walk' = None
              ELSE /\ walk' = [walk EXCEPT
                          !.regulations = r.regulations,
                          !.loaded = IF is_regulation_file(name) /\ is_stored(disk, p)
                                     THEN Append(walk.loaded, p) ELSE walk.loaded,
                          !.todo = walk.todo \ {name}]
                   /\ stores' = stores
    /\ UNCHANGED <<disk, mode, region_store, ctx, last>>

\* os.walk goes on, top-down, to the next directory
WalkNextDir ==
    /\ walk # None
    /\ walk.todo = {}
    /\ walk.stack # <<>>
    /\ \E order \in Orders(DirsIn(disk, walk.data_dir, Head(walk.stack))) :
          walk' = [walk EXCEPT !.cur = Head(walk.stack),
                               !.todo = FilesIn(disk, walk.data_dir, Head(walk.stack)),
                               !.stack = order \o Tail(walk.stack)]
    /\ UNCHANGED <<disk, mode, stores, region_store, ctx, last>>

\* the walk is over: the constructor returns the store
RegulationStoreDone ==
    /\ walk # None
    /\ walk.todo = {}
    /\ walk.stack = <<>>
    /\ stores' = [stores EXCEPT ![walk.data_dir] =
            [status |-> "ready", exc |-> "none", regulations |-> walk.regulations,
             loaded |-> walk.loaded]]
    /\ walk' = None
    /\ UNCHANGED <<disk, mode, region_store, ctx, last>>

\* mutant: the record is read from the file that holds the id now
get_regulation_reread(regs, regulation_id) ==
    LET holders == {p \in DOMAIN disk.files :
                       /\ disk.files[p].t = "dict"
                       /\ "id" \in DOMAIN disk.files[p].v
                       /\ normalize_string(disk.files[p].v.id)
                            = normalize_string(regulation_id)}
    IN  IF holders = {} THEN None ELSE disk.files[CHOOSE p \in holders : TRUE].v

\* RegulationStore.get_regulation, lines 59-60
get_regulation(regs, regulation_id) == DictGet(regs, normalize_string(regulation_id))

(***************************************************************************)
(* RegulationStore.search_regulations  (regulation_store.py 62-181)        *)
(***************************************************************************)
Ellipsis == <<".", ".", ".">>

\* _extract_snippet(text, keywords), lines 165-181
extract_snippet(text, keywords) ==
    LET text_lower == normalize_string(text)
        keywords_lower == normalize_string(keywords)
        idx == find(keywords_lower, text_lower)
        start == IF idx - context_chars > 0 THEN idx - context_chars ELSE 0
        stop == IF idx + Len(keywords) + context_chars < Len(text)
                THEN idx + Len(keywords) + context_chars
                ELSE Len(text)
    IN  IF idx = -1
        THEN IF Len(text) > context_chars * 2
             THEN slice(text, 0, context_chars * 2)
             ELSE text
        ELSE (IF start > 0 THEN Ellipsis ELSE <<>>)
             \o slice(text, start, stop)
             \o (IF stop < Len(text) THEN Ellipsis ELSE <<>>)

\* f"Article {article.get('article', 'N/A')}: "
article_prefix(article) ==
    <<"A", "r", "t", "i", "c", "l", "e", " ">>
    \o Get(article, "article", <<"N", "/", "A">>)
    \o <<":", " ">>

\* mutant: an article whose title matches is not looked at further
article_matches_elif(article, nk) ==
    LET title == Get(article, "title", <<>>)
        article_summary == Get(article, "summary", <<>>)
    IN  IF contains(nk, normalize_string(title))
        THEN << <<"article_title", article_prefix(article) \o title>> >>
        ELSE IF contains(nk, normalize_string(article_summary))
        THEN << <<"article_summary",
                  article_prefix(article) \o extract_snippet(article_summary, nk)>> >>
        ELSE <<>>

\* lines 109-117: the matches of one article, title before summary
article_matches(article, nk) ==
    LET title == Get(article, "title", <<>>)
        article_summary == Get(article, "summary", <<>>)
    IN  (IF contains(nk, normalize_string(title))
         THEN << <<"article_title", article_prefix(article) \o title>> >>
         ELSE <<>>)
        \o
        (IF contains(nk, normalize_string(article_summary))
         THEN << <<"article_summary",
                   article_prefix(article) \o extract_snippet(article_summary, nk)>> >>
         ELSE <<>>)

\* lines 108-117: the loop over the articles
RECURSIVE articles_matches(_, _)
articles_matches(articles, nk) ==
    IF articles = <<>> THEN <<>>
    ELSE article_matches(Head(articles), nk) \o articles_matches(Tail(articles), nk)

\* lines 120-122: the loop over the developer guidance
RECURSIVE guidance_matches(_, _)
guidance_matches(guidance, nk) ==
    IF guidance = <<>> THEN <<>>
    ELSE (IF contains(nk, normalize_string(Head(guidance)))
          THEN << <<"developer_guidance", Head(guidance)>> >>
          ELSE <<>>)
         \o guidance_matches(Tail(guidance), nk)

\* mutant: the developer guidance is not searched
record_matches_no_guidance(reg, nk) ==
    LET name == Get(reg, "name", <<>>)
        summary == Get(reg, "summary", <<>>)
    IN  (IF contains(nk, normalize_string(name))
         THEN << <<"name", name>> >> ELSE <<>>)
        \o
        (IF contains(nk, normalize_string(summary))
         THEN << <<"summary", extract_snippet(summary, nk)>> >> ELSE <<>>)
        \o articles_matches(Get(reg, "articles", <<>>), nk)

\* lines 93-122: the list `matches` of one record, pairs (match_type, snippet)
record_matches(reg, nk) ==
    LET name == Get(reg, "name", <<>>)
        summary == Get(reg, "summary", <<>>)
    IN  (IF contains(nk, normalize_string(name))
         THEN << <<"name", name>> >> ELSE <<>>)
        \o
        (IF contains(nk, normalize_string(summary))
         THEN << <<"summary", extract_snippet(summary, nk)>> >> ELSE <<>>)
        \o articles_matches(Get(reg, "articles", <<>>), nk)
        \o guidance_matches(Get(reg, "developer_guidance", <<>>), nk)

\* mutant: the last match is taken as the primary match
make_result_last_match(reg_id, reg, matches) ==
    [id |-> reg_id,
     name |-> Get(reg, "name", <<>>),
     snippet |-> matches[Len(matches)][2],
     match_type |-> matches[Len(matches)][1],
     all_matches |-> Len(matches)]

\* mutant: the result carries the id as the file writes it
make_result_written_id(reg_id, reg, matches) ==
    [id |-> Get(reg, "id", reg_id),
     name |-> Get(reg, "name", <<>>),
     snippet |-> matches[1][2],
     match_type |-> matches[1][1],
     all_matches |-> Len(matches)]

\* lines 130-136: the result built from a record's matches
make_result(reg_id, reg, matches) ==
    [id |-> reg_id,
     name |-> Get(reg, "name", <<>>),
     snippet |-> matches[1][2],
     match_type |-> matches[1][1],
     all_matches |-> Len(matches)]

\* lines 89-136: the loop over self.regulations.items(), from entry i on
RECURSIVE collect_results(_, _, _, _, _)
collect_results(regs, nk, i, seen_ids, results) ==
    IF i > Len(regs) THEN results
    ELSE LET reg_id == regs[i][1]
             reg == regs[i][2]
             matches == record_matches(reg, nk)
         IN  IF reg_id \in seen_ids
             THEN collect_results(regs, nk, i + 1, seen_ids, results)
             ELSE IF matches # <<>>
             THEN collect_results(regs, nk, i + 1, seen_ids \cup {reg_id},
                                  Append(results, make_result(reg_id, reg, matches)))
             ELSE collect_results(regs, nk, i + 1, seen_ids, results)

\* mutant: article matches rank with the name matches
rank_key_article_first(result) ==
    IF result.match_type = "name" THEN 0
    ELSE IF result.match_type = "summary" THEN 1
    ELSE IF result.match_type \in {"article_title", "article_summary"} THEN 0
    ELSE 3

\* lines 139-148; match_type.startswith("article") is true of the two
\* article match types
rank_key(result) ==
    IF result.match_type = "name" THEN 0
    ELSE IF result.match_type = "summary" THEN 1
    ELSE IF result.match_type \in {"article_title", "article_summary"} THEN 2
    ELSE 3

\* x placed behind every element whose key is not greater
insert_stable(sorted, x) ==
    LET before == {i \in 1..Len(sorted) : rank_key(sorted[i]) <= rank_key(x)}
        k == IF before = {} THEN 0 ELSE Max(before)
    IN  SubSeq(sorted, 1, k) \o <<x>> \o SubSeq(sorted, k + 1, Len(sorted))

\* line 150: results.sort(key=rank_key), a stable sort
RECURSIVE sort_by_rank(_, _)
sort_by_rank(results, sorted) ==
    IF results = <<>> THEN sorted
    ELSE sort_by_rank(Tail(results), insert_stable(sorted, Head(results)))

\* search_regulations(keywords), lines 85-151
search_regulations(regs, keywords) ==
    sort_by_rank(collect_results(regs, normalize_string(keywords), 1, {}, <<>>), <<>>)

\* a client calls store.get_regulation(regulation_id)
GetRegulation(d, regulation_id) ==
    /\ mode = "library"
    /\ walk = None
    /\ last = None
    /\ stores[d].status = "ready"
    /\ last' = [op |-> "get_regulation", store |-> d, arg |-> regulation_id,
                result |-> get_regulation(stores[d].regulations, regulation_id)]
    /\ UNCHANGED <<disk, mode, stores, walk, region_store, ctx>>

\* a client calls store.search_regulations(keywords)
SearchRegulations(d, keywords) ==
    /\ mode = "library"
    /\ walk = None
    /\ last = None
    /\ stores[d].status = "ready"
    /\ last' = [op |-> "search_regulations", store |-> d, arg |-> keywords,
                result |-> search_regulations(stores[d].regulations, keywords)]
    /\ UNCHANGED <<disk, mode, stores, walk, region_store, ctx>>

(***************************************************************************)
(* RegionStore  (region_store.py)                                          *)
(***************************************************************************)
\* lines 51-54, from region i on: regions with an id are indexed by their
\* normalized id; the exception raised, or the map
RECURSIVE index_regions(_, _, _, _)
index_regions(of, regions_list, i, regions) ==
    IF i > Len(regions_list) THEN [exc |-> "none", regions |-> regions]
    ELSE LET region == regions_list[i]
         IN  IF of = "num" THEN [exc |-> "TypeError"]
             ELSE IF of = "str"
             THEN IF contains(<<"i", "d">>, region)
                  THEN [exc |-> "TypeError"]
                  ELSE index_regions(of, regions_list, i + 1, regions)
             ELSE IF "id" \in DOMAIN region
             THEN index_regions(of, regions_list, i + 1,
                                DictPut(regions, normalize_string(region["id"]), region))
             ELSE index_regions(of, regions_list, i + 1, regions)

\* mutant: an object is always taken as one bare region
load_regions_no_wrapper(fsys, data_dir) ==
    LET regions_path == Path(data_dir, <<>>, RegionsJson)
        r == load_json_file(fsys, regions_path)
    IN  IF ~exists(fsys, regions_path) THEN [exc |-> "FileNotFoundError"]
        ELSE IF r.exc = "JSONDecodeError" THEN [exc |-> "ValueError"]
        ELSE IF r.exc # "none" THEN [exc |-> r.exc]
        ELSE IF r.data.t = "list"
             THEN index_regions(r.data.of, r.data.v, 1, <<>>)
        ELSE IF r.data.t = "dict"
             THEN index_regions("dict", <<r.data.v>>, 1, <<>>)
        ELSE index_regions("num", <<r.data>>, 1, <<>>)

\* _load_regions, lines 33-56: the exception raised, or the region map
load_regions(fsys, data_dir) ==
    LET regions_path == Path(data_dir, <<>>, RegionsJson)
        r == load_json_file(fsys, regions_path)
    IN  IF ~exists(fsys, regions_path) THEN [exc |-> "FileNotFoundError"]
        ELSE IF r.exc = "JSONDecodeError" THEN [exc |-> "ValueError"]
        ELSE IF r.exc # "none" THEN [exc |-> r.exc]
        ELSE IF r.data.t = "list"
             THEN index_regions(r.data.of, r.data.v, 1, <<>>)
        ELSE IF r.data.t = "dict" /\ "regions" \in DOMAIN r.data.v
             THEN index_regions("dict", r.data.v["regions"], 1, <<>>)
        ELSE IF r.data.t = "dict"
             THEN index_regions("dict", <<r.data.v>>, 1, <<>>)
        ELSE index_regions("num", <<r.data>>, 1, <<>>)

\* RegionStore(data_dir, regulation_store), lines 27-29
RegionStoreInit(d, regulation_store) ==
    /\ walk = None
    /\ region_store.status = "none"
    /\ regulation_store # "None" => stores[regulation_store].status = "ready"
    /\ mode = "facade" =>
          /\ d = DATA_DIR
          /\ regulation_store = DATA_DIR
          /\ ctx = None
    /\ LET r == load_regions(disk, d)
       IN  region_store' =
              IF r.exc # "none"
              THEN [NoRegionStore EXCEPT !.status = "failed", !.exc = r.exc,
                                         !.data_dir = d]
              ELSE [status |-> "ready", exc |-> "none", data_dir |-> d,
                    regulation_store |-> regulation_store, regions |-> r.regions]
    /\ last' = None
    /\ UNCHANGED <<disk, mode, stores, walk, ctx>>

\* self.data_dir / normalized_id / f"{reg_id}.json"; pathlib drops an empty
\* component
fallback_path(data_dir, normalized_id, reg_id) ==
    Path(data_dir,
         IF normalized_id = <<>> THEN <<>> ELSE <<normalized_id>>,
         reg_id \o DotJson)

\* the parsed content as get_region appends it: the object itself, or the
\* JSON value when the file holds no object
parsed_value(data) == IF data.t = "dict" THEN data.v ELSE data

\* mutant: only a parse error is caught
caught_parse_error_only(exc) == exc = "JSONDecodeError"

\* lines 102-104: except Exception catches whatever load_json_file raises
caught(exc) == TRUE

\* mutant: the file of the region's subdirectory is tried first
resolve_reference_file_first(fsys, regs, data_dir, normalized_id, reg_id) ==
    LET reg_path == fallback_path(data_dir, normalized_id, reg_id)
        r == load_json_file(fsys, reg_path)
    IN  IF exists(fsys, reg_path) /\ r.exc = "none"
        THEN [exc |-> "none", found |-> <<parsed_value(r.data)>>]
        ELSE IF get_regulation(regs, reg_id) # None
        THEN [exc |-> "none", found |-> <<get_regulation(regs, reg_id)>>]
        ELSE [exc |-> "none", found |-> <<>>]

\* lines 91-104, the body of the loop for one reference: the exception that
\* leaves get_region, or what the iteration appends
resolve_reference(fsys, regs, data_dir, normalized_id, reg_id) ==
    LET regulation == get_regulation(regs, reg_id)
        reg_path == fallback_path(data_dir, normalized_id, reg_id)
        r == load_json_file(fsys, reg_path)
    IN  IF regulation # None THEN [exc |-> "none", found |-> <<regulation>>]
        ELSE IF ~exists(fsys, reg_path) THEN [exc |-> "none", found |-> <<>>]
        ELSE IF r.exc = "none"
             THEN [exc |-> "none", found |-> <<parsed_value(r.data)>>]
        ELSE IF caught(r.exc) THEN [exc |-> "none", found |-> <<>>]
        ELSE [exc |-> r.exc]

\* lines 88-104: the loop over the region's references
RECURSIVE aggregate(_, _, _, _, _, _)
aggregate(fsys, regs, data_dir, normalized_id, regulation_ids, regulations) ==
    IF regulation_ids = <<>> THEN [exc |-> "none", regulations |-> regulations]
    ELSE LET r == resolve_reference(fsys, regs, data_dir, normalized_id,
                                    Head(regulation_ids))
         IN  IF r.exc # "none" THEN [exc |-> r.exc]
             ELSE aggregate(fsys, regs, data_dir, normalized_id,
                            Tail(regulation_ids), regulations \o r.found)

\* {**region, "regulations": regulations}
with_regulations(region, regulations) ==
    [k \in DOMAIN region \cup {"regulations"} |->
        IF k = "regulations" THEN regulations ELSE region[k]]

\* line 81: regulation_store or self.regulation_store
choose_store(passed, bound) ==
    IF passed # "None" THEN passed ELSE bound

\* mutant: without a store the region is returned as stored
region_without_store_raw(region) == region

\* lines 83-85: no store available
region_without_store(region) == with_regulations(region, <<>>)

\* get_region(region_id, regulation_store), lines 74-110: None, the region
\* with its regulations, or the exception raised
get_region(rs, fsys, strs, region_id, regulation_store) ==
    LET normalized_id == normalize_string(region_id)
        region == DictGet(rs.regions, normalized_id)
        store == choose_store(regulation_store, rs.regulation_store)
        r == aggregate(fsys, strs[store].regulations, rs.data_dir, normalized_id,
                       Get(region, "regulations", <<>>), <<>>)
    IN  IF region = None THEN None
        ELSE IF store = "None" THEN region_without_store(region)
        ELSE IF r.exc # "none" THEN [raised |-> r.exc]
        ELSE with_regulations(region, r.regulations)

\* mutant: the resolved list is written into the stored region
regions_after_get_region_in_place(rs, region_id, result) ==
    IF result # None /\ "regulations" \in DOMAIN result
    THEN DictPut(rs.regions, normalize_string(region_id), result)
    ELSE rs.regions

\* lines 75-110: self.regions after the call; get_region only reads the map
\* (line 75) and builds new dicts (lines 85, 107-110), it assigns nothing to
\* the stored region
regions_after_get_region(rs, region_id, result) == rs.regions

\* a client calls region_store.get_region(region_id, regulation_store)
GetRegion(region_id, regulation_store) ==
    /\ mode = "library"
    /\ walk = None
    /\ last = None
    /\ region_store.status = "ready"
    /\ regulation_store # "None" => stores[regulation_store].status = "ready"
    /\ LET result == get_region(region_store, disk, stores, region_id,
                                regulation_store)
       IN  /\ last' = [op |-> "get_region", arg |-> region_id,
                       store |-> regulation_store, result |-> result]
           /\ region_store' = [region_store EXCEPT !.regions =
                    regions_after_get_region(region_store, region_id, result)]
    /\ UNCHANGED <<disk, mode, stores, walk, ctx>>

(***************************************************************************)
(* The query facade  (main.py)                                             *)
(***************************************************************************)
\* mutant: the context is yielded once the RegulationStore is built
AppLifespanYield_early ==
    /\ mode = "facade"
    /\ walk = None
    /\ ctx = None
    /\ stores[DATA_DIR].status = "ready"
    /\ ctx' = [regulation_store |-> DATA_DIR, region_store |-> "region_store"]
    /\ UNCHANGED <<disk, mode, stores, walk, region_store, last>>

\* app_lifespan, lines 63-70: both stores are built, the context is yielded
AppLifespanYield ==
    /\ mode = "facade"
    /\ walk = None
    /\ ctx = None
    /\ stores[DATA_DIR].status = "ready"
    /\ region_store.status = "ready"
    /\ ctx' = [regulation_store |-> DATA_DIR, region_store |-> "region_store"]
    /\ UNCHANGED <<disk, mode, stores, walk, region_store, last>>

\* mutant: a miss is passed on as the store returned it
regulation_response_raw(regulation_id, regulation) == regulation

\* lines 113-119
regulation_response(regulation_id, regulation) ==
    IF regulation = None
    THEN [error |-> <<"Regulation '">> \o regulation_id
                    \o <<"' not found. Please check the regulation ID and try again.">>]
    ELSE regulation

\* lines 158-164
region_response(region_id, region) ==
    IF region = None
    THEN [error |-> <<"Region '">> \o region_id
                    \o <<"' not found. Please check the region ID and try again.">>]
    ELSE region

\* lines 212-220
search_response(keywords, results) ==
    IF results = <<>>
    THEN <<[message |-> <<"No regulations found matching '">> \o keywords
                        \o <<"'. Try different keywords or check spelling.">>]>>
    ELSE results

\* the tool get_regulation, lines 110-119
ToolGetRegulation(regulation_id) ==
    /\ ctx # None
    /\ last = None
    /\ last' = [op |-> "tool_get_regulation", arg |-> regulation_id,
                result |-> regulation_response(regulation_id,
                    get_regulation(stores[ctx.regulation_store].regulations,
                                   regulation_id))]
    /\ UNCHANGED <<disk, mode, stores, walk, region_store, ctx>>

\* the tool get_region, lines 152-164
ToolGetRegion(region_id) ==
    /\ ctx # None
    /\ last = None
    /\ LET result == get_region(region_store, disk, stores, region_id,
                                ctx.regulation_store)
       IN  /\ last' = [op |-> "tool_get_region", arg |-> region_id,
                       result |-> region_response(region_id, result)]
           /\ region_store' = [region_store EXCEPT !.regions =
                    regions_after_get_region(region_store, region_id, result)]
    /\ UNCHANGED <<disk, mode, stores, walk, ctx>>

\* the tool search_regulations, lines 209-220
ToolSearchRegulations(keywords) ==
    /\ ctx # None
    /\ last = None
    /\ last' = [op |-> "tool_search_regulations", arg |-> keywords,
                result |-> search_response(keywords,
                    search_regulations(stores[ctx.regulation_store].regulations,
                                       keywords))]
    /\ UNCHANGED <<disk, mode, stores, walk, region_store, ctx>>

\* the caller has the result of its call
Return ==
    /\ last # None
    /\ last' = None
    /\ UNCHANGED <<disk, mode, stores, walk, region_store, ctx>>

Next ==
    \/ \E d \in DataDirs : RegulationStoreInit(d)
    \/ LoadFile
    \/ WalkNextDir
    \/ RegulationStoreDone
    \/ \E d \in DataDirs, q \in Queries : GetRegulation(d, q)
    \/ \E d \in DataDirs, q \in Queries : SearchRegulations(d, q)
    \/ \E d \in DataDirs, s \in DataDirs \cup {"None"} : RegionStoreInit(d, s)
    \/ \E q \in Queries, s \in DataDirs \cup {"None"} : GetRegion(q, s)
    \/ AppLifespanYield
    \/ \E q \in Queries : ToolGetRegulation(q)
    \/ \E q \in Queries : ToolGetRegion(q)
    \/ \E q \in Queries : ToolSearchRegulations(q)
    \/ Return

Spec == Init /\ [][Next]_vars

(***************************************************************************)
(* The stores used as a library while the regulation files of the data    *)
(* directory are added, changed and deleted after construction.           *)
(***************************************************************************)
\* the files that are written or removed
EditPaths ==
    {Path("d1", <<>>, <<"x">> \o DotJson),
     Path("d1", <<>>, <<"y">> \o DotJson),
     Path("d1", << <<"a">> >>, <<"a", "a">> \o DotJson)}

\* what is written: nothing (the file is removed), or a regulation
EditDocs == {Absent, DictDoc(RegAa)}

\* the files after p is written with doc, or removed
write_file(files, p, doc) ==
    [q \in (IF doc = Absent THEN DOMAIN files \ {p} ELSE DOMAIN files \cup {p}) |->
        IF q = p THEN doc ELSE files[q]]

\* somebody adds, changes or deletes a regulation file of a directory whose
\* RegulationStore is constructed
EditFile(p, doc) ==
    /\ walk = None
    /\ last = None
    /\ stores[p.root].status = "ready"
    /\ disk' = [disk EXCEPT !.files = write_file(disk.files, p, doc)]
    /\ disk' # disk
    /\ UNCHANGED <<mode, stores, walk, region_store, ctx, last>>

InitDisk ==
    /\ disk = MakeFS(Absent, DictDoc(RegNoId), ManifestList)
    /\ mode = "library"
    /\ stores = [d \in DataDirs |-> NoStore]
    /\ walk = None
    /\ region_store = NoRegionStore
    /\ ctx = None
    /\ last = None

NextDisk ==
    \/ \E d \in DataDirs : RegulationStoreInit(d)
    \/ LoadFile
    \/ WalkNextDir
    \/ RegulationStoreDone
    \/ \E d \in DataDirs, q \in Queries : GetRegulation(d, q)
    \/ \E d \in DataDirs, q \in Queries : SearchRegulations(d, q)
    \/ \E d \in DataDirs, s \in DataDirs \cup {"None"} : RegionStoreInit(d, s)
    \/ \E q \in Queries, s \in DataDirs \cup {"None"} : GetRegion(q, s)
    \/ Return
    \/ \E p \in EditPaths, doc \in EditDocs : EditFile(p, doc)

SpecDisk == InitDisk /\ [][NextDisk]_vars


(***************************************************************************)
(* The properties.  They are stated with their own normaliser and their   *)
(* own account of matching, resolving and ranking.                         *)
(***************************************************************************)
\* the positions of s that trimming keeps: those with a character other than
\* a space at or before them and one at or after them
Kept(s) ==
    {i \in 1..Len(s) :
        /\ \E j \in 1..i : s[j] # " "
        /\ \E j \in i..Len(s) : s[j] # " "}

\* trim, then lower-case
Norm(s) ==
    LET kept == Kept(s)
        skip == IF kept = {} THEN 0 ELSE (CHOOSE i \in kept : (i - 1) \notin kept) - 1
    IN  [i \in 1..Cardinality(kept) |->
            IF s[i + skip] = "A" THEN "a" ELSE s[i + skip]]

IsCall(op) == last # None /\ last.op = op

Field(d, key) == IF key \in DOMAIN d THEN d[key] ELSE <<>>

Hit(nk, text) == contains(nk, Norm(text))

\* the record has at least one matching field
FieldMatch(reg, nk) ==
    \/ Hit(nk, Field(reg, "name"))
    \/ Hit(nk, Field(reg, "summary"))
    \/ \E i \in 1..Len(Field(reg, "articles")) :
          \/ Hit(nk, Field(reg.articles[i], "title"))
          \/ Hit(nk, Field(reg.articles[i], "summary"))
    \/ \E i \in 1..Len(Field(reg, "developer_guidance")) :
          Hit(nk, reg.developer_guidance[i])

\* the number of matching fields of the record
MatchCount(reg, nk) ==
    (IF Hit(nk, Field(reg, "name")) THEN 1 ELSE 0)
    + (IF Hit(nk, Field(reg, "summary")) THEN 1 ELSE 0)
    + Cardinality({i \in 1..Len(Field(reg, "articles")) :
                      Hit(nk, Field(reg.articles[i], "title"))})
    + Cardinality({i \in 1..Len(Field(reg, "articles")) :
                      Hit(nk, Field(reg.articles[i], "summary"))})
    + Cardinality({i \in 1..Len(Field(reg, "developer_guidance")) :
                      Hit(nk, reg.developer_guidance[i])})

\* the place of key k in the store's iteration order
Pos(regs, k) == CHOOSE n \in 1..Len(regs) : regs[n][1] = k

Priority(match_type) ==
    CASE match_type = "name" -> 0
      [] match_type = "summary" -> 1
      [] match_type \in {"article_title", "article_summary"} -> 2
      [] OTHER -> 3

\* C1: search_regulations(kw) returns exactly one result for each stored
\* record with a field that contains normalize(kw), and no result for a
\* record without such a field.
C1_OneResultPerMatchingRecord ==
    IsCall("search_regulations") =>
        LET regs == stores[last.store].regulations
            res == last.result
        IN  /\ \A j \in 1..Len(res) : \E i \in 1..Len(regs) : res[j].id = regs[i][1]
            /\ \A i \in 1..Len(regs) :
                  Cardinality({j \in 1..Len(res) : res[j].id = regs[i][1]})
                    = IF FieldMatch(regs[i][2], Norm(last.arg)) THEN 1 ELSE 0

\* a search that returned a record with several matching fields and left
\* out a record without one
C1_Witness ==
    /\ IsCall("search_regulations")
    /\ Len(last.result) >= 1
    /\ Len(last.result) < Len(stores[last.store].regulations)
    /\ \E j \in 1..Len(last.result) : last.result[j].all_matches >= 2

\* C2: get_regulation and get_region return the same for two identifiers
\* that are equal after trimming and lower-casing.  Stated for every call
\* and the trimmed, lower-cased form of its identifier: two identifiers with
\* the same form then both return what that form returns.
C2_CaseAndWhitespaceInsensitive ==
    /\ IsCall("get_regulation") =>
          get_regulation(stores[last.store].regulations, Norm(last.arg)) = last.result
    /\ IsCall("get_region") =>
          get_region(region_store, disk, stores, Norm(last.arg), last.store)
            = last.result

\* a region found under an identifier written with a space and a capital
C2_Witness ==
    /\ IsCall("get_region")
    /\ last.arg = <<" ", "A">>
    /\ last.store # "None"
    /\ last.result # None
    /\ Len(last.result.regulations) >= 1

\* the regulation files the constructor loads: .json files not named
\* regions.json that parse to an object with an id
RegulationFiles(d) ==
    {p \in DOMAIN disk.files :
        /\ p.root = d
        /\ endswith(p.name, DotJson)
        /\ p.name # RegionsJson
        /\ disk.files[p].t = "dict"
        /\ "id" \in DOMAIN disk.files[p].v}

\* C3: a constructed store finds a record for every id of a loaded file (the
\* record of a loaded file with that normalized id), and finds nothing for an
\* id whose normalized form is the normalized id of no loaded file.
C3_LoadedIdsFoundOthersNot ==
    IsCall("get_regulation") =>
        LET same == {p \in RegulationFiles(last.store) :
                        Norm(disk.files[p].v.id) = Norm(last.arg)}
        IN  IF same = {}
            THEN last.result = None
            ELSE \E p \in same : last.result = disk.files[p].v

\* the id of a loaded file, written as in the file, is looked up in a store
\* built from two loaded files next to files it skipped
C3_Witness ==
    /\ IsCall("get_regulation")
    /\ last.store = "d1"
    /\ Cardinality(RegulationFiles("d1")) = 2
    /\ Len(stores["d1"].regulations) = 2
    /\ last.arg = <<" ">>
    /\ last.result = RegE

\* an id of no loaded file: "aa" is the id of a file that is no .json file
C3_WitnessNotFound ==
    /\ IsCall("get_regulation")
    /\ last.store = "d1"
    /\ last.arg = <<"a", "a">>
    /\ last.result = None

\* C4: the results are in the order of their priority (name, summary,
\* article, guidance), and results of equal priority are in the store's
\* iteration order.
C4_RankedAndStable ==
    IsCall("search_regulations") =>
        LET regs == stores[last.store].regulations
            res == last.result
        IN  \A i, j \in 1..Len(res) :
                i < j =>
                    /\ Priority(res[i].match_type) <= Priority(res[j].match_type)
                    /\ Priority(res[i].match_type) = Priority(res[j].match_type)
                          => Pos(regs, res[i].id) < Pos(regs, res[j].id)

\* a search whose sort moved a result forward and kept two results of equal
\* priority in store order
C4_Witness ==
    /\ IsCall("search_regulations")
    /\ LET regs == stores[last.store].regulations
           res == last.result
       IN  /\ \E i, j \in 1..Len(res) :
                  i < j /\ Pos(regs, res[i].id) > Pos(regs, res[j].id)
           /\ \E i, j \in 1..Len(res) :
                  i < j /\ Priority(res[i].match_type) = Priority(res[j].match_type)

\* C5: all_matches is the number of matching fields of the record: name,
\* summary, each article's title and summary counted apart, each guidance
\* string; it is at least 1.
C5_AllMatchesIsFieldCount ==
    IsCall("search_regulations") =>
        LET regs == stores[last.store].regulations
            res == last.result
        IN  \A j \in 1..Len(res) :
                /\ res[j].all_matches >= 1
                /\ \E i \in 1..Len(regs) :
                      /\ regs[i][1] = res[j].id
                      /\ res[j].all_matches = MatchCount(regs[i][2], Norm(last.arg))

\* a result counting five fields, an article's title and summary among them
C5_Witness ==
    /\ IsCall("search_regulations")
    /\ \E j \in 1..Len(last.result) : last.result[j].all_matches = 5

\* the store get_region resolves against: the one passed, else the one bound
EffectiveStore ==
    IF last.store # "None" THEN last.store ELSE region_store.regulation_store

\* the stored region the call is about, or None
CalledRegion ==
    LET hits == {i \in 1..Len(region_store.regions) :
                    region_store.regions[i][1] = Norm(last.arg)}
    IN  IF hits = {} THEN None ELSE region_store.regions[CHOOSE i \in hits : TRUE][2]

\* <data root>/<normalize(region_id)>/<ref>.json
FallbackFile(ref) ==
    [root |-> region_store.data_dir,
     dir |-> IF Norm(last.arg) = <<>> THEN <<>> ELSE <<Norm(last.arg)>>,
     name |-> ref \o <<".", "j", "s", "o", "n">>]

InStore(regs, ref) == \E i \in 1..Len(regs) : regs[i][1] = Norm(ref)

FileParses(p) ==
    p \in DOMAIN disk.files /\ disk.files[p].t \in {"dict", "list", "num"}

\* what one reference resolves to: the store's record, else the content of
\* the fallback file, else nothing
Resolved(regs, ref) ==
    IF InStore(regs, ref) THEN <<regs[Pos(regs, Norm(ref))][2]>>
    ELSE IF FileParses(FallbackFile(ref))
         THEN <<IF disk.files[FallbackFile(ref)].t = "dict"
                THEN disk.files[FallbackFile(ref)].v
                ELSE disk.files[FallbackFile(ref)]>>
    ELSE <<>>

RECURSIVE ResolvedAll(_, _)
ResolvedAll(regs, refs) ==
    IF refs = <<>> THEN <<>>
    ELSE Resolved(regs, Head(refs)) \o ResolvedAll(regs, Tail(refs))

RegionCallWithStore ==
    /\ IsCall("get_region")
    /\ CalledRegion # None
    /\ EffectiveStore # "None"

\* C6: with a regulation store, get_region returns the resolvable references
\* in the order of the reference list: the store's record when the store has
\* one, else the parsed content of the fallback file.
C6_AggregatesInOrderStoreFirst ==
    RegionCallWithStore =>
        /\ "regulations" \in DOMAIN last.result
        /\ last.result.regulations
             = ResolvedAll(stores[EffectiveStore].regulations,
                           Field(CalledRegion, "regulations"))

\* references [a, aa, b]: a comes from the store, aa only from the file of
\* the region's subdirectory, b from nowhere
C6_Witness ==
    /\ RegionCallWithStore
    /\ Field(CalledRegion, "regulations") = << <<"a">>, <<"a", "a">>, <<"b">> >>
    /\ ~InStore(stores[EffectiveStore].regulations, <<"a", "a">>)
    /\ "regulations" \in DOMAIN last.result
    /\ last.result.regulations = <<RegA, RegNoId>>

\* a reference that is not in the store and has no fallback file that parses
Unresolvable(regs, ref) ==
    /\ ~InStore(regs, ref)
    /\ \/ FallbackFile(ref) \notin DOMAIN disk.files
       \/ disk.files[FallbackFile(ref)].t \in {"invalid", "unreadable"}

\* C7: get_region raises nothing for an unresolvable reference and returns as
\* many regulations as the reference list is long, less the unresolvable ones.
C7_UnresolvableReferencesOmitted ==
    RegionCallWithStore =>
        LET regs == stores[EffectiveStore].regulations
            refs == Field(CalledRegion, "regulations")
        IN  /\ "raised" \notin DOMAIN last.result
            /\ "regulations" \in DOMAIN last.result
            /\ Len(last.result.regulations)
                 = Len(refs) - Cardinality({i \in 1..Len(refs) : Unresolvable(regs, refs[i])})

\* a fallback file that cannot be read, a reference without any file, and a
\* reference that is still resolved
C7_Witness ==
    /\ RegionCallWithStore
    /\ \E ref \in {<<"a", "a">>} :
          /\ ~InStore(stores[EffectiveStore].regulations, ref)
          /\ FallbackFile(ref) \in DOMAIN disk.files
          /\ disk.files[FallbackFile(ref)].t = "unreadable"
    /\ Field(CalledRegion, "regulations") = << <<"a">>, <<"a", "a">>, <<"b">> >>
    /\ "regulations" \in DOMAIN last.result
    /\ Len(last.result.regulations) = 1

\* C8: constructing a RegulationStore fails only when the root directory
\* does not exist.
C8_ConstructionFailsOnlyWithoutRoot ==
    \A d \in DataDirs : stores[d].status = "failed" => d \notin disk.roots

\* C9: the facade answers a miss by shape: an object with only an error field
\* for an unknown regulation or region, a one-element list with a message for
\* a search without results; otherwise it passes on what the store returned.
C9_FacadeSignalsMissByShape ==
    /\ IsCall("tool_get_regulation") =>
          LET r == get_regulation(stores[DATA_DIR].regulations, last.arg)
          IN  IF r = None THEN DOMAIN last.result = {"error"} ELSE last.result = r
    /\ IsCall("tool_get_region") =>
          LET r == get_region(region_store, disk, stores, last.arg, DATA_DIR)
          IN  IF r = None THEN DOMAIN last.result = {"error"} ELSE last.result = r
    /\ IsCall("tool_search_regulations") =>
          LET r == search_regulations(stores[DATA_DIR].regulations, last.arg)
          IN  /\ last.result # <<>>
              /\ IF r = <<>>
                 THEN Len(last.result) = 1 /\ DOMAIN last.result[1] = {"message"}
                 ELSE last.result = r

\* the facade's search answered a search without results
C9_Witness ==
    /\ IsCall("tool_search_regulations")
    /\ search_regulations(stores[DATA_DIR].regulations, last.arg) = <<>>
    /\ Len(last.result) = 1

\* C10: get_region resolves against the store passed, else the store bound at
\* construction; with neither, it returns the region with an empty regulations
\* list, never the list of reference strings.
C10_StoreChoiceAndNoStore ==
    (IsCall("get_region") /\ CalledRegion # None) =>
        LET refs == Field(CalledRegion, "regulations")
            bound == region_store.regulation_store
        IN  /\ "regulations" \in DOMAIN last.result
            /\ last.store # "None" =>
                  last.result.regulations
                    = ResolvedAll(stores[last.store].regulations, refs)
            /\ (last.store = "None" /\ bound # "None") =>
                  last.result.regulations = ResolvedAll(stores[bound].regulations, refs)
            /\ (last.store = "None" /\ bound = "None") =>
                  /\ last.result.regulations = <<>>
                  /\ DOMAIN last.result = DOMAIN CalledRegion \cup {"regulations"}
                  /\ \A k \in DOMAIN CalledRegion \ {"regulations"} :
                        last.result[k] = CalledRegion[k]

\* a region with three references, asked for without any store
C10_Witness ==
    /\ IsCall("get_region")
    /\ CalledRegion # None
    /\ last.store = "None"
    /\ region_store.regulation_store = "None"
    /\ Len(Field(CalledRegion, "regulations")) = 3
    /\ last.result.regulations = <<>>

\* the text with its capitals lower-cased, nothing trimmed
LowerText(s) == [i \in 1..Len(s) |-> IF s[i] = "A" THEN "a" ELSE s[i]]

\* the stored record a result is about
ResultRecord(regs, result) == regs[Pos(regs, result.id)][2]

\* snippet is a piece text[a..b) of the text, with `...` in front only if the
\* piece starts after the start of the text and `...` behind only if it ends
\* before the end
EllipsisOnlyWhereCut(text, snippet) ==
    \E a \in 0..Len(text) : \E b \in a..Len(text) :
        \E front \in {<<>>} \cup (IF a > 0 THEN {Ellipsis} ELSE {}) :
            \E back \in {<<>>} \cup (IF b < Len(text) THEN {Ellipsis} ELSE {}) :
                snippet = front \o SubSeq(text, a + 1, b) \o back

\* C11: the snippet of every result whose match_type is summary contains the
\* normalized keyword, compared without regard to case, whatever whitespace
\* the summary starts or ends with and however long it is; `...` stands only
\* on a side where the summary was cut.
C11_SummarySnippetContainsKeyword ==
    IsCall("search_regulations") =>
        LET regs == stores[last.store].regulations
            res == last.result
        IN  \A j \in 1..Len(res) :
                res[j].match_type = "summary" =>
                    /\ contains(Norm(last.arg), LowerText(res[j].snippet))
                    /\ EllipsisOnlyWhereCut(Field(ResultRecord(regs, res[j]), "summary"),
                                            res[j].snippet)

\* the searched fields of a record in the fixed order: name, summary, each
\* article's title and then its summary, the guidance strings; each field
\* with its match type, its text and the label a snippet of it starts with
SearchedFields(reg) ==
    LET arts == Field(reg, "articles")
        guid == Field(reg, "developer_guidance")
        label(a) == <<"A", "r", "t", "i", "c", "l", "e", " ">>
                    \o (IF "article" \in DOMAIN a THEN a.article ELSE <<"N", "/", "A">>)
                    \o <<":", " ">>
    IN  << [type |-> "name", text |-> Field(reg, "name"), label |-> <<>>],
           [type |-> "summary", text |-> Field(reg, "summary"), label |-> <<>>] >>
        \o [i \in 1..(2 * Len(arts)) |->
              IF i % 2 = 1
              THEN [type |-> "article_title",
                    text |-> Field(arts[(i + 1) \div 2], "title"),
                    label |-> label(arts[(i + 1) \div 2])]
              ELSE [type |-> "article_summary",
                    text |-> Field(arts[i \div 2], "summary"),
                    label |-> label(arts[i \div 2])]]
        \o [i \in 1..Len(guid) |->
              [type |-> "developer_guidance", text |-> guid[i], label |-> <<>>]]

\* the first field of the record, in that order, that contains the keyword
PrimaryField(reg, nk) ==
    LET fs == SearchedFields(reg)
    IN  fs[CHOOSE i \in 1..Len(fs) :
              /\ Hit(nk, fs[i].text)
              /\ \A k \in 1..(i - 1) : ~Hit(nk, fs[k].text)]

MatchTypes ==
    {"name", "summary", "article_title", "article_summary", "developer_guidance"}

\* C12: match_type and snippet of a result are those of the record's primary
\* match, the first matching field in the order name, summary, articles (title
\* before summary), guidance: match_type is that field's type, one of the
\* five; the snippet is taken from that field's text (behind the article label
\* for an article field), and for a name match it is the full name.
C12_PrimaryMatchIsFirstField ==
    IsCall("search_regulations") =>
        LET regs == stores[last.store].regulations
            res == last.result
        IN  \A j \in 1..Len(res) :
                LET reg == ResultRecord(regs, res[j])
                    nk == Norm(last.arg)
                    f == PrimaryField(reg, nk)
                    n == Len(f.label)
                IN  /\ FieldMatch(reg, nk)
                    /\ res[j].match_type \in MatchTypes
                    /\ res[j].match_type = f.type
                    /\ Len(res[j].snippet) >= n
                    /\ SubSeq(res[j].snippet, 1, n) = f.label
                    /\ EllipsisOnlyWhereCut(f.text,
                           SubSeq(res[j].snippet, n + 1, Len(res[j].snippet)))
                    /\ f.type = "name" => res[j].snippet = Field(reg, "name")

\* a record whose first matching field is the summary of its first article,
\* with matches in its second article and in its guidance behind it
C12_Witness ==
    /\ IsCall("search_regulations")
    /\ \E j \in 1..Len(last.result) :
          /\ last.result[j].match_type = "article_summary"
          /\ last.result[j].all_matches >= 4
          /\ last.result[j].snippet
               = <<"A", "r", "t", "i", "c", "l", "e", " ", "N", "/", "A", ":", " ",
                   "b", "A", "a">>

\* the window around the first occurrence of the keyword in the text, the
\* text compared without regard to case: up to context_chars characters on
\* each side, `...` in front exactly when the window starts after the start
\* of the text, `...` behind exactly when it ends before the end
Window(text, nk) ==
    LET i == find(nk, LowerText(text))
        a == IF i - context_chars > 0 THEN i - context_chars ELSE 0
        b == IF i + Len(nk) + context_chars < Len(text)
             THEN i + Len(nk) + context_chars ELSE Len(text)
    IN  (IF a > 0 THEN Ellipsis ELSE <<>>)
        \o SubSeq(text, a + 1, b)
        \o (IF b < Len(text) THEN Ellipsis ELSE <<>>)

\* C13: the snippet of every primary match other than a name match is the
\* window of the field's text around the first occurrence of the normalized
\* keyword, behind the label `Article <number or N/A>: ` for an article match.
C13_SnippetIsWindowAroundKeyword ==
    IsCall("search_regulations") =>
        LET regs == stores[last.store].regulations
            res == last.result
        IN  \A j \in 1..Len(res) :
                LET f == PrimaryField(ResultRecord(regs, res[j]), Norm(last.arg))
                IN  res[j].match_type # "name" =>
                        res[j].snippet = f.label \o Window(f.text, Norm(last.arg))

\* C14 as stated: keywords that normalize to the empty string match nothing
C14_EmptyKeywordsNoMatches ==
    (IsCall("search_regulations") /\ Norm(last.arg) = <<>>) => last.result = <<>>

\* C14 amended: keywords that normalize to the empty string raise no error and
\* match every record (the empty string is a substring of every text): one
\* result per stored record, in the store's iteration order, each a name match
\* with the full name as snippet and all_matches counting every searched field.
C14_EmptyKeywordsMatchEveryRecord ==
    (IsCall("search_regulations") /\ Norm(last.arg) = <<>>) =>
        LET regs == stores[last.store].regulations
            res == last.result
        IN  /\ Len(res) = Len(regs)
            /\ \A i \in 1..Len(regs) :
                  /\ res[i].id = regs[i][1]
                  /\ res[i].match_type = "name"
                  /\ res[i].snippet = Field(regs[i][2], "name")
                  /\ res[i].all_matches = Len(SearchedFields(regs[i][2]))

\* a whitespace-only search of a store of three records returned all three
C14_Witness ==
    /\ IsCall("search_regulations")
    /\ last.arg = <<" ">>
    /\ Len(stores[last.store].regulations) = 3
    /\ Len(last.result) = 3

\* C15: after construction no call changes the regulation map or the region
\* map: every step leaves a constructed store's keys and records, and each
\* stored region with its list of reference strings, as they were.
C15_MapsFixedAfterConstruction ==
    [][/\ \A d \in DataDirs : stores[d].status = "ready" => stores'[d] = stores[d]
       /\ region_store.status = "ready" => region_store' = region_store]_vars

\* get_region returned resolved records while the stored region still holds
\* its three reference strings
C15_Witness ==
    /\ RegionCallWithStore
    /\ Field(CalledRegion, "regulations") = << <<"a">>, <<"a", "a">>, <<"b">> >>
    /\ "regulations" \in DOMAIN last.result
    /\ Len(last.result.regulations) = 2
    /\ last.result.regulations[1] = RegA

\* the map holds one entry per normalized id of the loaded files, and the
\* entry of a key is the record of the last loaded file with that id
OneRecordPerKey(regs, loaded) ==
    LET key(n) == Norm(disk.files[loaded[n]].v.id)
    IN  /\ \A i, j \in 1..Len(regs) : regs[i][1] = regs[j][1] => i = j
        /\ {regs[i][1] : i \in 1..Len(regs)} = {key(n) : n \in 1..Len(loaded)}
        /\ \A i \in 1..Len(regs) :
              LET last_n == CHOOSE n \in 1..Len(loaded) :
                                /\ key(n) = regs[i][1]
                                /\ \A m \in (n + 1)..Len(loaded) : key(m) # regs[i][1]
              IN  regs[i][2] = disk.files[loaded[last_n]].v

\* C17: the regulation map holds exactly one record per normalized id; of two
\* loaded files whose ids have the same normalized form it holds the record
\* of the one loaded later in the walk.
C17_OneRecordPerKeyLaterWins ==
    /\ walk # None => OneRecordPerKey(walk.regulations, walk.loaded)
    /\ \A d \in DataDirs :
          stores[d].status = "ready" =>
              /\ {stores[d].loaded[n] : n \in 1..Len(stores[d].loaded)}
                   = RegulationFiles(d)
              /\ OneRecordPerKey(stores[d].regulations, stores[d].loaded)

\* y.json with id "A " was loaded before x.json with id "a": the store has one
\* entry for "a", the record of x.json
C17_Witness ==
    /\ stores["d1"].status = "ready"
    /\ Len(stores["d1"].loaded) >= 2
    /\ stores["d1"].loaded[1] = Path("d1", <<>>, <<"y">> \o <<".", "j", "s", "o", "n">>)
    /\ stores["d1"].loaded[2] = Path("d1", <<>>, <<"x">> \o <<".", "j", "s", "o", "n">>)
    /\ disk.files[stores["d1"].loaded[1]].v.id = <<"A", " ">>
    /\ Cardinality({i \in 1..Len(stores["d1"].regulations) :
                       stores["d1"].regulations[i][1] = <<"a">>}) = 1
    /\ \E i \in 1..Len(stores["d1"].regulations) :
          stores["d1"].regulations[i] = << <<"a">>, RegA >>

\* the manifest of the directory the RegionStore was constructed over
ManifestPath == [root |-> region_store.data_dir, dir |-> <<>>,
                 name |-> <<"r", "e", "g", "i", "o", "n", "s", ".", "j", "s", "o", "n">>]

\* C18: constructing a RegionStore fails with a file-not-found error when the
\* manifest is absent, with an error reporting the parse error when the
\* manifest is not valid JSON, and succeeds otherwise.
C18_RegionStoreFailsOnlyWithoutValidManifest ==
    region_store.status # "none" =>
        IF ManifestPath \notin DOMAIN disk.files
        THEN region_store.status = "failed" /\ region_store.exc = "FileNotFoundError"
        ELSE IF disk.files[ManifestPath].t = "invalid"
        THEN region_store.status = "failed" /\ region_store.exc = "ValueError"
        ELSE region_store.status = "ready"

\* the region records a manifest carries, whatever its shape
Carried(doc) ==
    IF doc.t = "list" THEN doc.v
    ELSE IF "regions" \in DOMAIN doc.v THEN doc.v.regions
    ELSE <<doc.v>>

\* C19: the region map depends only on the region records the manifest
\* carries, not on its shape (a list, an object with a `regions` list, one
\* bare object): its keys are the normalized ids of the records with an id,
\* each key holds the last record with that normalized id, and the map is the
\* one the list of these records gives.
C19_SameMapFromEveryShape ==
    region_store.status = "ready" =>
        LET recs == Carried(disk.files[ManifestPath])
            with_id == {i \in 1..Len(recs) : "id" \in DOMAIN recs[i]}
            regions == region_store.regions
        IN  /\ \A i, j \in 1..Len(regions) : regions[i][1] = regions[j][1] => i = j
            /\ {regions[n][1] : n \in 1..Len(regions)}
                 = {Norm(recs[i].id) : i \in with_id}
            /\ \A n \in 1..Len(regions) :
                  \E i \in with_id :
                      /\ Norm(recs[i].id) = regions[n][1]
                      /\ regions[n][2] = recs[i]
                      /\ \A k \in with_id : k > i => Norm(recs[k].id) # regions[n][1]
            /\ regions = index_regions("dict", recs, 1, <<>>).regions

\* a store built from an object with a `regions` list of four records, two of
\* them with the same normalized id and one without an id
C19_Witness ==
    /\ region_store.status = "ready"
    /\ disk.files[ManifestPath].t = "dict"
    /\ "regions" \in DOMAIN disk.files[ManifestPath].v
    /\ Len(disk.files[ManifestPath].v.regions) = 4
    /\ Len(region_store.regions) = 2

ToolCalls == {"tool_get_regulation", "tool_get_region", "tool_search_regulations"}

\* C20: the facade answers a call only from a context it yielded, and it
\* yields the context only after the RegulationStore and then the RegionStore,
\* bound to that RegulationStore, are constructed over the data directory;
\* when either construction failed there is no context and no answer.
C20_NoQueryBeforeConstruction ==
    /\ (last # None /\ last.op \in ToolCalls) => ctx # None
    /\ ctx # None =>
          /\ walk = None
          /\ stores[ctx.regulation_store].status = "ready"
          /\ ctx.regulation_store = DATA_DIR
          /\ region_store.status = "ready"
          /\ region_store.data_dir = DATA_DIR
          /\ region_store.regulation_store = ctx.regulation_store
    /\ mode = "facade" =>
          /\ region_store.status # "none" => stores[DATA_DIR].status = "ready"
          /\ (stores[DATA_DIR].status = "failed" \/ region_store.status = "failed")
                => (ctx = None /\ last = None)

\* the facade answered get_region with regulations of the constructed store
C20_Witness ==
    /\ IsCall("tool_get_region")
    /\ mode = "facade"
    /\ "regulations" \in DOMAIN last.result
    /\ Len(last.result.regulations) >= 2
    /\ Len(stores[DATA_DIR].loaded) >= 2

\* what the map holds under the normalized identifier, or None
MapLookup(regs, id) ==
    LET hits == {i \in 1..Len(regs) : regs[i][1] = Norm(id)}
    IN  IF hits = {} THEN None ELSE regs[CHOOSE i \in hits : TRUE][2]

\* C16: whatever files are added, changed or deleted after construction,
\* get_regulation returns what the map built at construction holds, and
\* search_regulations returns the matching records of that map; get_region
\* takes every reference the store resolves from the map and reads a file,
\* as it is on the disk at the time of the call, only for the others.
C16_QueriesServedFromMap ==
    /\ IsCall("get_regulation") =>
          last.result = MapLookup(stores[last.store].regulations, last.arg)
    /\ IsCall("search_regulations") =>
          LET regs == stores[last.store].regulations
              res == last.result
          IN  /\ \A i \in 1..Len(regs) :
                    Cardinality({j \in 1..Len(res) : res[j].id = regs[i][1]})
                      = IF FieldMatch(regs[i][2], Norm(last.arg)) THEN 1 ELSE 0
              /\ \A j \in 1..Len(res) :
                    \E i \in 1..Len(regs) :
                        /\ res[j].id = regs[i][1]
                        /\ res[j].name = Field(regs[i][2], "name")
                        /\ res[j].all_matches = MatchCount(regs[i][2], Norm(last.arg))
    /\ RegionCallWithStore =>
          /\ "regulations" \in DOMAIN last.result
          /\ \A k \in 1..Len(last.result.regulations) :
                \/ \E i \in 1..Len(stores[EffectiveStore].regulations) :
                      last.result.regulations[k] = stores[EffectiveStore].regulations[i][2]
                \/ \E ref \in {Field(CalledRegion, "regulations")[n] :
                                  n \in 1..Len(Field(CalledRegion, "regulations"))} :
                      /\ ~InStore(stores[EffectiveStore].regulations, ref)
                      /\ FileParses(FallbackFile(ref))
                      /\ <<last.result.regulations[k]>> = Resolved(<<>>, ref)
          /\ Len(last.result.regulations)
               = Cardinality({n \in 1..Len(Field(CalledRegion, "regulations")) :
                     \/ InStore(stores[EffectiveStore].regulations,
                                Field(CalledRegion, "regulations")[n])
                     \/ FileParses(FallbackFile(Field(CalledRegion, "regulations")[n]))})

\* x.json was deleted and a/aa.json rewritten after construction: get_region
\* still returns the record of x.json, from the map, and the new content of
\* a/aa.json, from the disk
C16_Witness ==
    /\ RegionCallWithStore
    /\ EffectiveStore = "d1"
    /\ [root |-> "d1", dir |-> <<>>, name |-> <<"x", ".", "j", "s", "o", "n">>]
          \notin DOMAIN disk.files
    /\ "regulations" \in DOMAIN last.result
    /\ last.result.regulations = <<RegA, RegAa>>

\* C21: every result of search_regulations carries as id the key its record
\* has in the store's map, which is the trimmed, lower-cased form of the id
\* the file writes; so get_regulation called with the result's id returns a
\* record, never not-found, that record is the one stored under the key, and
\* its name (the empty string when it has none) is the result's name.
C21_ResultIdIsStoreKey ==
    IsCall("search_regulations") =>
        LET regs == stores[last.store].regulations
        IN  \A j \in 1..Len(last.result) :
                LET r == last.result[j]
                    found == get_regulation(regs, r.id)
                IN  /\ r.id = Norm(r.id)
                    /\ \E i \in 1..Len(regs) :
                          /\ regs[i][1] = r.id
                          /\ found = regs[i][2]
                    /\ found # None
                    /\ r.id = Norm(Field(found, "id"))
                    /\ Field(found, "name") = r.name

\* a search returned a record whose file writes the id otherwise than the
\* result carries it (with upper case or surrounding whitespace)
C21_Witness ==
    /\ IsCall("search_regulations")
    /\ \E j \in 1..Len(last.result) :
          LET found == get_regulation(stores[last.store].regulations, last.result[j].id)
          IN  /\ found # None
              /\ Field(found, "id") # last.result[j].id
              /\ Field(found, "name") = last.result[j].name

====
